---- MODULE Spec2Model ----
(***************************************************************************)
(* Model of the headless policy engine of awspirin-lib (PolicyCore) and of *)
(* the dependency resolver it is wired to by usePolicyGenerator.           *)
(*                                                                         *)
(* Strings are sequences of one-character strings, so that concatenation,  *)
(* includes(':'), join(',') and the default sort order of                  *)
(* Array.prototype.sort are computed as JavaScript computes them.          *)
(* An optional value (x?: T, T | null) is None == <<>> or Some(x) == <<x>>.*)
(* A Map is the sequence of its entries in insertion order.                *)
(***************************************************************************)
EXTENDS Integers, Sequences, FiniteSets, TLC

VARIABLES resources, selections, arnList, dependencyResolver, ret, lastCall, destroyed,
          hookState, pureIn, pureOut

vars == <<resources, selections, arnList, dependencyResolver, ret, lastCall, destroyed,
          hookState, pureIn, pureOut>>

\* the variables the engine's own methods never touch
outside == <<hookState, pureIn, pureOut>>

(***************************************************************************)
(* Bounds and input pools                                                  *)
(***************************************************************************)
\* longest actions array passed to setActions
MaxActions == 2

None == <<>>
Some(x) == <<x>>
IsSome(o) == o # <<>>
Val(o) == o[1]

\* resource ids (Map keys; never inspected character by character)
ResourceIds == {"r1", "r2"}
\* service names: "b" and "t"
Services == {<<"b">>, <<"t">>}
\* action ids: "c" (unqualified) and "b:c" (qualified)
ActionIds == {<<"c">>, <<"b", ":", "c">>}
\* identifiers given to setARN: "", "a" and "a:b"
ArnStrings == {<<>>, <<"a">>, <<"a", ":", "b">>}
\* arrays given to setARNList: [] and one ARNItem {arn: "a", service: "b"}
ArnLists == {<<>>, <<[arn |-> <<"a">>, service |-> <<"b">>]>>}

SeqsUpTo(S, n) == UNION {[1..k -> S] : k \in 0..n}
ActionLists == SeqsUpTo(ActionIds, MaxActions)
ResourcePool == [id : ResourceIds, service : Services]

(***************************************************************************)
(* JavaScript strings and arrays                                           *)
(***************************************************************************)
\* UTF-16 code unit of a character
CharCode(c) ==
  CASE c = "*" -> 42
    [] c = "," -> 44
    [] c = ":" -> 58
    [] c = "a" -> 97
    [] c = "b" -> 98
    [] c = "c" -> 99
    [] c = "d" -> 100
    [] c = "t" -> 116

\* x < y on strings: lexicographic by code unit, a proper prefix is smaller
RECURSIVE StrLess(_, _)
StrLess(x, y) ==
  IF y = <<>> THEN FALSE
  ELSE IF x = <<>> THEN TRUE
  ELSE IF CharCode(Head(x)) # CharCode(Head(y)) THEN CharCode(Head(x)) < CharCode(Head(y))
  ELSE StrLess(Tail(x), Tail(y))

\* s.includes(':')
IncludesColon(s) == \E i \in 1..Len(s) : s[i] = ":"

Range(s) == {s[i] : i \in 1..Len(s)}
Contains(s, x) == \E i \in 1..Len(s) : s[i] = x

\* [...new Set(xs)]: first occurrences, in order
RECURSIVE UniqueInto(_, _)
UniqueInto(acc, xs) ==
  IF xs = <<>> THEN acc
  ELSE UniqueInto(IF Contains(acc, Head(xs)) THEN acc ELSE Append(acc, Head(xs)), Tail(xs))

Unique(xs) == UniqueInto(<<>>, xs)

RECURSIVE InsertSorted(_, _)
InsertSorted(sorted, x) ==
  IF sorted = <<>> THEN <<x>>
  ELSE IF StrLess(x, Head(sorted)) THEN <<x>> \o sorted
  ELSE <<Head(sorted)>> \o InsertSorted(Tail(sorted), x)

\* xs.sort() with the default comparator (the order of the result; the
\* caller decides which array object it overwrites)
RECURSIVE SortStrings(_)
SortStrings(xs) ==
  IF xs = <<>> THEN <<>> ELSE InsertSorted(SortStrings(Tail(xs)), Head(xs))

\* xs.join(',')
RECURSIVE JoinComma(_)
JoinComma(xs) ==
  IF xs = <<>> THEN <<>>
  ELSE IF Len(xs) = 1 THEN xs[1]
  ELSE xs[1] \o <<",">> \o JoinComma(Tail(xs))

(***************************************************************************)
(* Maps in insertion order                                                 *)
(***************************************************************************)
ResourceKeys(m) == [i \in 1..Len(m) |-> m[i].id]
SelectionKeys(m) == [i \in 1..Len(m) |-> m[i].resourceId]

HasResource(m, id) == \E i \in 1..Len(m) : m[i].id = id
HasSelection(m, id) == \E i \in 1..Len(m) : m[i].resourceId = id
GetResource(m, id) == m[CHOOSE i \in 1..Len(m) : m[i].id = id]
GetSelection(m, id) == m[CHOOSE i \in 1..Len(m) : m[i].resourceId = id]

\* Map.prototype.set: an existing key keeps its position
SetResource(m, r) ==
  IF HasResource(m, r.id)
  THEN [i \in 1..Len(m) |-> IF m[i].id = r.id THEN r ELSE m[i]]
  ELSE Append(m, r)

SetSelection(m, s) ==
  IF HasSelection(m, s.resourceId)
  THEN [i \in 1..Len(m) |-> IF m[i].resourceId = s.resourceId THEN s ELSE m[i]]
  ELSE Append(m, s)

\* Map.prototype.delete
DeleteResource(m, id) == SelectSeq(m, LAMBDA r : r.id # id)
DeleteSelection(m, id) == SelectSeq(m, LAMBDA s : s.resourceId # id)

(***************************************************************************)
(* utils/dependencies: resolveDependencies and the static tables           *)
(***************************************************************************)
\* a table entry {actions?, dependencies?, requires?}
Entry(a, d, r) == [actions |-> a, dependencies |-> d, requires |-> r]

\* the shape of the static tables, abbreviated to two ids of service "b":
\* "b:c" expands to itself and depends on "b:d"; "b:d" expands to itself
StaticTable ==
  (<<"b", ":", "c">> :> Entry(Some(<< <<"b", ":", "c">> >>), Some(<< <<"b", ":", "d">> >>), None))
  @@ (<<"b", ":", "d">> :> Entry(Some(<< <<"b", ":", "d">> >>), Some(<<>>), None))

\* resolved.add(x) for each x of xs, on a Set kept in insertion order
AddAll(resolved, xs) == UniqueInto(resolved, xs)

\* deps.forEach(dep => { if (!processed.has(dep)) toProcess.push(dep) })
PushUnprocessed(toProcess, deps, processed) ==
  toProcess \o SelectSeq(deps, LAMBDA dep : dep \notin processed)

\* variant of the loop body without processed.add(action)
LoopIteration_NoProcessedAdd(toProcess, processed, resolved, table) ==
  LET action == toProcess[Len(toProcess)]
      rest == SubSeq(toProcess, 1, Len(toProcess) - 1)
  IN IF action \in processed
     THEN [toProcess |-> rest, processed |-> processed, resolved |-> resolved]
     ELSE
       LET processed1 == processed
           hasEntry == action \in DOMAIN table
           deps == IF hasEntry THEN table[action] ELSE Entry(None, None, None)
           resolved1 == IF IsSome(deps.actions)
                        THEN AddAll(resolved, Val(deps.actions))
                        ELSE AddAll(resolved, <<action>>)
           toProcess1 == IF IsSome(deps.dependencies)
                         THEN PushUnprocessed(rest, Val(deps.dependencies), processed1)
                         ELSE rest
           resolved2 == IF IsSome(deps.requires)
                        THEN AddAll(resolved1, Val(deps.requires))
                        ELSE resolved1
           toProcess2 == IF IsSome(deps.requires)
                         THEN PushUnprocessed(toProcess1, Val(deps.requires), processed1)
                         ELSE toProcess1
       IN [toProcess |-> toProcess2, processed |-> processed1, resolved |-> resolved2]

\* variant of the loop body where requires are added but not queued
LoopIteration_RequiresNotQueued(toProcess, processed, resolved, table) ==
  LET action == toProcess[Len(toProcess)]
      rest == SubSeq(toProcess, 1, Len(toProcess) - 1)
  IN IF action \in processed
     THEN [toProcess |-> rest, processed |-> processed, resolved |-> resolved]
     ELSE
       LET processed1 == processed \cup {action}
           hasEntry == action \in DOMAIN table
           deps == IF hasEntry THEN table[action] ELSE Entry(None, None, None)
           resolved1 == IF IsSome(deps.actions)
                        THEN AddAll(resolved, Val(deps.actions))
                        ELSE AddAll(resolved, <<action>>)
           toProcess1 == IF IsSome(deps.dependencies)
                         THEN PushUnprocessed(rest, Val(deps.dependencies), processed1)
                         ELSE rest
           resolved2 == IF IsSome(deps.requires)
                        THEN AddAll(resolved1, Val(deps.requires))
                        ELSE resolved1
           toProcess2 == toProcess1
       IN [toProcess |-> toProcess2, processed |-> processed1, resolved |-> resolved2]

\* variant of the loop body where requires are queued but not added
LoopIteration_RequiresNotAdded(toProcess, processed, resolved, table) ==
  LET action == toProcess[Len(toProcess)]
      rest == SubSeq(toProcess, 1, Len(toProcess) - 1)
  IN IF action \in processed
     THEN [toProcess |-> rest, processed |-> processed, resolved |-> resolved]
     ELSE
       LET processed1 == processed \cup {action}
           hasEntry == action \in DOMAIN table
           deps == IF hasEntry THEN table[action] ELSE Entry(None, None, None)
           resolved1 == IF IsSome(deps.actions)
                        THEN AddAll(resolved, Val(deps.actions))
                        ELSE AddAll(resolved, <<action>>)
           toProcess1 == IF IsSome(deps.dependencies)
                         THEN PushUnprocessed(rest, Val(deps.dependencies), processed1)
                         ELSE rest
           resolved2 == resolved1
           toProcess2 == IF IsSome(deps.requires)
                         THEN PushUnprocessed(toProcess1, Val(deps.requires), processed1)
                         ELSE toProcess1
       IN [toProcess |-> toProcess2, processed |-> processed1, resolved |-> resolved2]

\* one iteration of the while loop, entered with toProcess.length > 0
LoopIteration(toProcess, processed, resolved, table) ==
  LET action == toProcess[Len(toProcess)]
      rest == SubSeq(toProcess, 1, Len(toProcess) - 1)
  IN IF action \in processed
     THEN [toProcess |-> rest, processed |-> processed, resolved |-> resolved]
     ELSE
       LET processed1 == processed \cup {action}
           hasEntry == action \in DOMAIN table
           deps == IF hasEntry THEN table[action] ELSE Entry(None, None, None)
           resolved1 == IF IsSome(deps.actions)
                        THEN AddAll(resolved, Val(deps.actions))
                        ELSE AddAll(resolved, <<action>>)
           toProcess1 == IF IsSome(deps.dependencies)
                         THEN PushUnprocessed(rest, Val(deps.dependencies), processed1)
                         ELSE rest
           resolved2 == IF IsSome(deps.requires)
                        THEN AddAll(resolved1, Val(deps.requires))
                        ELSE resolved1
           toProcess2 == IF IsSome(deps.requires)
                         THEN PushUnprocessed(toProcess1, Val(deps.requires), processed1)
                         ELSE toProcess1
       IN [toProcess |-> toProcess2, processed |-> processed1, resolved |-> resolved2]

\* the while loop: returns Array.from(resolved)
RECURSIVE ResolveLoop(_, _, _, _)
ResolveLoop(toProcess, processed, resolved, table) ==
  IF toProcess = <<>> THEN resolved
  ELSE LET s == LoopIteration(toProcess, processed, resolved, table)
       IN ResolveLoop(s.toProcess, s.processed, s.resolved, table)

\* resolveDependencies(actions, dependencyConfig): with a null config the
\* input array itself is returned
resolveDependencies(actions, dependencyConfig) ==
  IF ~IsSome(dependencyConfig) THEN actions
  ELSE ResolveLoop(actions, {}, <<>>, Val(dependencyConfig))

\* a resolver is the closure (actions) => resolveDependencies(actions, deps),
\* represented by its captured deps: None (no table) or Some(table)
ResolverPool == {None, Some(StaticTable)}

(***************************************************************************)
(* PolicyCore                                                              *)
(***************************************************************************)
\* PolicyCore.resolveDependencies; this.dependencies is never filled, so the
\* default branch returns Array.from(new Set(actions))
CoreResolveDependencies(resolver, actions) ==
  IF IsSome(resolver) THEN resolveDependencies(actions, Val(resolver))
  ELSE Unique(actions)

\* whether the array returned by resolveDependencies is the array passed in
ReturnsInputArray(resolver) == IsSome(resolver) /\ ~IsSome(Val(resolver))

\* selection.arn ?? '*': the empty string is kept
ResourceArn_Nullish(arn) == IF IsSome(arn) THEN Val(arn) ELSE <<"*">>

\* selection.arn || '*'
ResourceArn(arn) == IF IsSome(arn) /\ Val(arn) # <<>> THEN Val(arn) ELSE <<"*">>

\* `${resourceArn}:${resolvedActions.sort().join(',')}`
StatementKey(resourceArn, sortedActions) == resourceArn \o <<":">> \o JoinComma(sortedActions)

\* action.includes(':') ? action : `${resource.service}:${action}`
Qualify(service, action) == IF IncludesColon(action) THEN action ELSE service \o <<":">> \o action

QualifyAll(service, actions) == [k \in 1..Len(actions) |-> Qualify(service, actions[k])]

\* the statement created for a key seen for the first time
NewStatement(service, resolvedActions, resourceArn) ==
  [Effect |-> "Allow", Action |-> QualifyAll(service, resolvedActions), Resource |-> resourceArn]

\* existing.Action = [...new Set([...existing.Action, ...resolvedActions])]
MergeIntoExisting(existing, resolvedActions) ==
  [existing EXCEPT !.Action = Unique(existing.Action \o resolvedActions)]

\* the iteration without the early return for a selection with no actions
VisitSelection_NoEmptySkip(acc, i, res, resolver) ==
  LET selection == acc.sels[i]
  IN IF ~HasResource(res, selection.resourceId) THEN acc
     ELSE
       LET resource == GetResource(res, selection.resourceId)
           sorted == SortStrings(CoreResolveDependencies(resolver, selection.actions))
           sels1 == IF ReturnsInputArray(resolver)
                    THEN [acc.sels EXCEPT ![i].actions = sorted]
                    ELSE acc.sels
           resourceArn == ResourceArn(selection.arn)
           key == StatementKey(resourceArn, sorted)
       IN IF Contains(acc.keys, key)
          THEN LET j == CHOOSE j \in 1..Len(acc.keys) : acc.keys[j] = key
               IN [statements |-> [acc.statements EXCEPT ![j] = MergeIntoExisting(@, sorted)],
                   keys |-> acc.keys,
                   sels |-> sels1]
          ELSE [statements |-> Append(acc.statements, NewStatement(resource.service, sorted, resourceArn)),
                keys |-> Append(acc.keys, key),
                sels |-> sels1]

\* the iteration with the Action list taken from the resolved array before
\* it is sorted
VisitSelection_SortAfterUse(acc, i, res, resolver) ==
  LET selection == acc.sels[i]
  IN IF selection.actions = <<>> THEN acc
     ELSE IF ~HasResource(res, selection.resourceId) THEN acc
     ELSE
       LET resource == GetResource(res, selection.resourceId)
           resolved == CoreResolveDependencies(resolver, selection.actions)
           sorted == SortStrings(resolved)
           sels1 == IF ReturnsInputArray(resolver)
                    THEN [acc.sels EXCEPT ![i].actions = sorted]
                    ELSE acc.sels
           resourceArn == ResourceArn(selection.arn)
           key == StatementKey(resourceArn, sorted)
       IN IF Contains(acc.keys, key)
          THEN LET j == CHOOSE j \in 1..Len(acc.keys) : acc.keys[j] = key
               IN [statements |-> [acc.statements EXCEPT ![j] = MergeIntoExisting(@, resolved)],
                   keys |-> acc.keys,
                   sels |-> sels1]
          ELSE [statements |-> Append(acc.statements, NewStatement(resource.service, resolved, resourceArn)),
                keys |-> Append(acc.keys, key),
                sels |-> sels1]

\* one iteration of this.selections.forEach in generatePolicy;
\* acc = [statements, keys (statementMap, as the key of each statement), sels]
VisitSelection(acc, i, res, resolver) ==
  LET selection == acc.sels[i]
  IN IF selection.actions = <<>> THEN acc
     ELSE IF ~HasResource(res, selection.resourceId) THEN acc
     ELSE
       LET resource == GetResource(res, selection.resourceId)
           sorted == SortStrings(CoreResolveDependencies(resolver, selection.actions))
           sels1 == IF ReturnsInputArray(resolver)
                    THEN [acc.sels EXCEPT ![i].actions = sorted]
                    ELSE acc.sels
           resourceArn == ResourceArn(selection.arn)
           key == StatementKey(resourceArn, sorted)
       IN IF Contains(acc.keys, key)
          THEN LET j == CHOOSE j \in 1..Len(acc.keys) : acc.keys[j] = key
               IN [statements |-> [acc.statements EXCEPT ![j] = MergeIntoExisting(@, sorted)],
                   keys |-> acc.keys,
                   sels |-> sels1]
          ELSE [statements |-> Append(acc.statements, NewStatement(resource.service, sorted, resourceArn)),
                keys |-> Append(acc.keys, key),
                sels |-> sels1]

RECURSIVE VisitSelections(_, _, _, _)
VisitSelections(acc, i, res, resolver) ==
  IF i > Len(acc.sels) THEN acc
  ELSE VisitSelections(VisitSelection(acc, i, res, resolver), i + 1, res, resolver)

\* optimizeStatements: one statement per Resource, in order of first appearance
RECURSIVE OptimizeInto(_, _)
OptimizeInto(groups, statements) ==
  IF statements = <<>> THEN groups
  ELSE
    LET statement == Head(statements)
    IN IF \E j \in 1..Len(groups) : groups[j].Resource = statement.Resource
       THEN LET j == CHOOSE j \in 1..Len(groups) : groups[j].Resource = statement.Resource
            IN OptimizeInto([groups EXCEPT ![j].Action = Unique(@ \o statement.Action)],
                            Tail(statements))
       ELSE OptimizeInto(Append(groups, statement), Tail(statements))

optimizeStatements(statements) == OptimizeInto(<<>>, statements)

\* generatePolicy on a given engine state: the document returned and the
\* selections it leaves behind
GeneratePolicyRun(res, sels, resolver) ==
  LET acc == VisitSelections([statements |-> <<>>, keys |-> <<>>, sels |-> sels], 1, res, resolver)
  IN [policy |-> [Version |-> "2012-10-17", Statement |-> optimizeStatements(acc.statements)],
      selections |-> acc.sels]

\* the document generatePolicy() would return in the current state
Policy == GeneratePolicyRun(resources, selections, dependencyResolver).policy

(***************************************************************************)
(* State and operations                                                    *)
(*   resources, selections : the two Maps, as entry sequences              *)
(*   arnList               : the ARNItem array                             *)
(*   dependencyResolver    : None, or Some(resolver)                       *)
(*   ret                   : Some(document) after generatePolicy, None     *)
(*                           after a call that returns void                *)
(*   lastCall              : the most recent call: its name, resource id,  *)
(*                           whether that id had a Selection when called,  *)
(*                           and the actions array passed to setActions    *)
(*   destroyed             : ids whose configured Selection was deleted by *)
(*                           removeResource and that no effective          *)
(*                           setActions/setARN has touched since           *)
(*   hookState             : usePolicyGenerator's React state as of the    *)
(*                           last render, and whether a setState is pending*)
(*   pureIn, pureOut       : argument and result of a pure function under  *)
(*                           check                                         *)
(***************************************************************************)
Call(op, id, present, actions) ==
  [op |-> op, id |-> id, present |-> present, actions |-> actions]

NoId == "-"

EmptySelection(id) == [resourceId |-> id, actions |-> <<>>, arn |-> None]

IsConfigured(selection) == selection.actions # <<>> \/ IsSome(selection.arn)

\* what the hook's closures read from `state`: the resources and the ids
\* of the selections of core.getState() at the last render
Snapshot(res, sels, stale) ==
  [resources |-> res, selections |-> SelectionKeys(sels), stale |-> stale]

\* constructor: field initialisers, then this.reset()
Init ==
  /\ hookState = Snapshot(<<>>, <<>>, FALSE)
  /\ pureIn = None
  /\ pureOut = None
  /\ resources = <<>>
  /\ selections = <<>>
  /\ arnList = <<>>
  /\ dependencyResolver = None
  /\ ret = None
  /\ lastCall = Call("constructor", NoId, FALSE, <<>>)
  /\ destroyed = {}

\* addResource that always writes a fresh Selection
addResource_ResetsSelection(resource) ==
  /\ resources' = SetResource(resources, resource)
  /\ selections' = SetSelection(selections, EmptySelection(resource.id))
  /\ ret' = None
  /\ lastCall' = Call("addResource", resource.id, HasSelection(selections, resource.id), <<>>)
  /\ UNCHANGED <<arnList, dependencyResolver, destroyed>>

addResource(resource) ==
  /\ resources' = SetResource(resources, resource)
  /\ selections' = IF ~HasSelection(selections, resource.id)
                   THEN SetSelection(selections, EmptySelection(resource.id))
                   ELSE selections
  /\ ret' = None
  /\ lastCall' = Call("addResource", resource.id, HasSelection(selections, resource.id), <<>>)
  /\ UNCHANGED <<arnList, dependencyResolver, destroyed>>

\* removeResource that deletes the catalog entry only
removeResource_KeepsSelection(resourceId) ==
  /\ resources' = DeleteResource(resources, resourceId)
  /\ selections' = selections
  /\ ret' = None
  /\ lastCall' = Call("removeResource", resourceId, HasSelection(selections, resourceId), <<>>)
  /\ destroyed' = IF HasSelection(selections, resourceId)
                     /\ IsConfigured(GetSelection(selections, resourceId))
                  THEN destroyed \cup {resourceId}
                  ELSE destroyed
  /\ UNCHANGED <<arnList, dependencyResolver>>

\* removeResource that deletes only the selection
removeResource_KeepsResource(resourceId) ==
  /\ resources' = resources
  /\ selections' = DeleteSelection(selections, resourceId)
  /\ ret' = None
  /\ lastCall' = Call("removeResource", resourceId, HasSelection(selections, resourceId), <<>>)
  /\ destroyed' = IF HasSelection(selections, resourceId)
                     /\ IsConfigured(GetSelection(selections, resourceId))
                  THEN destroyed \cup {resourceId}
                  ELSE destroyed
  /\ UNCHANGED <<arnList, dependencyResolver>>

removeResource(resourceId) ==
  /\ resources' = DeleteResource(resources, resourceId)
  /\ selections' = DeleteSelection(selections, resourceId)
  /\ ret' = None
  /\ lastCall' = Call("removeResource", resourceId, HasSelection(selections, resourceId), <<>>)
  /\ destroyed' = IF HasSelection(selections, resourceId)
                     /\ IsConfigured(GetSelection(selections, resourceId))
                  THEN destroyed \cup {resourceId}
                  ELSE destroyed
  /\ UNCHANGED <<arnList, dependencyResolver>>

\* setActions that stores the input array as given
setActions_NoDedup(resourceId, actions) ==
  /\ selections' = IF HasSelection(selections, resourceId)
                   THEN SetSelection(selections,
                          [GetSelection(selections, resourceId) EXCEPT !.actions = actions])
                   ELSE selections
  /\ ret' = None
  /\ lastCall' = Call("setActions", resourceId, HasSelection(selections, resourceId), actions)
  /\ destroyed' = IF HasSelection(selections, resourceId)
                  THEN destroyed \ {resourceId}
                  ELSE destroyed
  /\ UNCHANGED <<resources, arnList, dependencyResolver>>

setActions(resourceId, actions) ==
  /\ selections' = IF HasSelection(selections, resourceId)
                   THEN SetSelection(selections,
                          [GetSelection(selections, resourceId) EXCEPT !.actions = Unique(actions)])
                   ELSE selections
  /\ ret' = None
  /\ lastCall' = Call("setActions", resourceId, HasSelection(selections, resourceId), actions)
  /\ destroyed' = IF HasSelection(selections, resourceId)
                  THEN destroyed \ {resourceId}
                  ELSE destroyed
  /\ UNCHANGED <<resources, arnList, dependencyResolver>>

\* setARN that creates a Selection for an id that has none
setARN_Upsert(resourceId, arn) ==
  /\ selections' = IF HasSelection(selections, resourceId)
                   THEN SetSelection(selections,
                          [GetSelection(selections, resourceId) EXCEPT !.arn = Some(arn)])
                   ELSE SetSelection(selections,
                          [EmptySelection(resourceId) EXCEPT !.arn = Some(arn)])
  /\ ret' = None
  /\ lastCall' = Call("setARN", resourceId, HasSelection(selections, resourceId), <<>>)
  /\ destroyed' = IF HasSelection(selections, resourceId)
                  THEN destroyed \ {resourceId}
                  ELSE destroyed
  /\ UNCHANGED <<resources, arnList, dependencyResolver>>

setARN(resourceId, arn) ==
  /\ selections' = IF HasSelection(selections, resourceId)
                   THEN SetSelection(selections,
                          [GetSelection(selections, resourceId) EXCEPT !.arn = Some(arn)])
                   ELSE selections
  /\ ret' = None
  /\ lastCall' = Call("setARN", resourceId, HasSelection(selections, resourceId), <<>>)
  /\ destroyed' = IF HasSelection(selections, resourceId)
                  THEN destroyed \ {resourceId}
                  ELSE destroyed
  /\ UNCHANGED <<resources, arnList, dependencyResolver>>

setARNList(arns) ==
  /\ arnList' = arns
  /\ ret' = None
  /\ lastCall' = Call("setARNList", NoId, FALSE, <<>>)
  /\ UNCHANGED <<resources, selections, dependencyResolver, destroyed>>

setDependencyResolver(resolver) ==
  /\ dependencyResolver' = Some(resolver)
  /\ ret' = None
  /\ lastCall' = Call("setDependencyResolver", NoId, FALSE, <<>>)
  /\ UNCHANGED <<resources, selections, arnList, destroyed>>

generatePolicy ==
  LET run == GeneratePolicyRun(resources, selections, dependencyResolver)
  IN /\ ret' = Some(run.policy)
     /\ selections' = run.selections
     /\ lastCall' = Call("generatePolicy", NoId, FALSE, <<>>)
     /\ UNCHANGED <<resources, arnList, dependencyResolver, destroyed>>

\* reset that forgets this.selections.clear()
reset_KeepsSelections ==
  /\ resources' = <<>>
  /\ selections' = selections
  /\ arnList' = <<>>
  /\ ret' = None
  /\ lastCall' = Call("reset", NoId, FALSE, <<>>)
  /\ destroyed' = {}
  /\ UNCHANGED dependencyResolver

reset ==
  /\ resources' = <<>>
  /\ selections' = <<>>
  /\ arnList' = <<>>
  /\ ret' = None
  /\ lastCall' = Call("reset", NoId, FALSE, <<>>)
  /\ destroyed' = {}
  /\ UNCHANGED dependencyResolver

Next ==
  \/ \E resource \in ResourcePool : addResource(resource) /\ UNCHANGED outside
  \/ \E resourceId \in ResourceIds : removeResource(resourceId) /\ UNCHANGED outside
  \/ \E resourceId \in ResourceIds, actions \in ActionLists :
       setActions(resourceId, actions) /\ UNCHANGED outside
  \/ \E resourceId \in ResourceIds, arn \in ArnStrings :
       setARN(resourceId, arn) /\ UNCHANGED outside
  \/ \E arns \in ArnLists : setARNList(arns) /\ UNCHANGED outside
  \/ \E resolver \in ResolverPool : setDependencyResolver(resolver) /\ UNCHANGED outside
  \/ generatePolicy /\ UNCHANGED outside
  \/ reset /\ UNCHANGED outside

Spec == Init /\ [][Next]_vars

(***************************************************************************)
(* Vocabulary of the claims                                                *)
(***************************************************************************)
NoDuplicates(xs) == \A i, j \in 1..Len(xs) : xs[i] = xs[j] => i = j

WithActions == {i \in 1..Len(selections) : selections[i].actions # <<>>}

\* the identifier a selection is emitted under: its set identifier, or '*'
\* when none was set or it is the empty string
FinalIdentifier(selection) ==
  IF selection.arn = None \/ selection.arn = Some(<<>>) THEN <<"*">> ELSE Val(selection.arn)

\* '<service>:<id>' unless the id already holds a ':'
Qualified(service, id) == IF ":" \in Range(id) THEN id ELSE service \o <<":">> \o id

ServiceOf(selection) == GetResource(resources, selection.resourceId).service

\* the resolved action ids of a selection under the registered resolver
ResolvedOf(selection) == Range(CoreResolveDependencies(dependencyResolver, selection.actions))

\* the qualified actions a selection stands for
QualifiedOf(selection) == {Qualified(ServiceOf(selection), a) : a \in ResolvedOf(selection)}

Statements == Policy.Statement

\* C1: with no resolver registered and exactly one selection with actions,
\* generatePolicy returns exactly one Allow statement holding every selected
\* action in qualified form, on the set identifier, or on '*' when the
\* identifier is unset or empty.
C1_SingleSelection ==
  (dependencyResolver = None /\ Cardinality(WithActions) = 1) =>
    LET selection == selections[CHOOSE i \in WithActions : TRUE]
    IN /\ Len(Statements) = 1
       /\ Statements[1].Effect = "Allow"
       /\ \A a \in Range(selection.actions) :
            Qualified(ServiceOf(selection), a) \in Range(Statements[1].Action)
       /\ Statements[1].Resource = FinalIdentifier(selection)

C1_Witness ==
  /\ dependencyResolver = None
  /\ Len(selections) = 2
  /\ Cardinality(WithActions) = 1
  /\ \E i \in WithActions : selections[i].arn = Some(<<>>) /\ Len(selections[i].actions) = 2
  /\ lastCall.op = "generatePolicy"

\* C2: with no resolver registered, no two statements share a Resource, and
\* each final identifier has one statement whose Action list is the
\* duplicate-free union of the qualified actions of the selections on it.
C2_OneStatementPerIdentifier ==
  dependencyResolver = None =>
    /\ \A p, q \in 1..Len(Statements) :
         Statements[p].Resource = Statements[q].Resource => p = q
    /\ \A i \in WithActions :
         \E p \in 1..Len(Statements) :
           /\ Statements[p].Resource = FinalIdentifier(selections[i])
           /\ NoDuplicates(Statements[p].Action)
           /\ Range(Statements[p].Action) =
                UNION {QualifiedOf(selections[j]) :
                         j \in {k \in WithActions :
                                  FinalIdentifier(selections[k]) = FinalIdentifier(selections[i])}}

\* C3: two selections with actions and distinct set identifiers get separate
\* statements, one per identifier, and the statement of one holds no action
\* that only a selection on another identifier contributed.
C3_DistinctIdentifiersNotMerged ==
  \A i, j \in WithActions :
    (/\ i # j
     /\ IsSome(selections[i].arn)
     /\ IsSome(selections[j].arn)
     /\ Val(selections[i].arn) # Val(selections[j].arn)) =>
      \E p, q \in 1..Len(Statements) :
        /\ p # q
        /\ Statements[p].Resource = FinalIdentifier(selections[i])
        /\ Statements[q].Resource = FinalIdentifier(selections[j])
        /\ \A x \in Range(Statements[p].Action) :
             \E k \in WithActions :
               /\ FinalIdentifier(selections[k]) = FinalIdentifier(selections[i])
               /\ x \in QualifiedOf(selections[k]) \cup ResolvedOf(selections[k])

\* C4: every emitted action is qualified: it holds a ':' and is the
\* qualified form of a resolved action of some selection with actions.
C4_EveryActionQualified ==
  \A p \in 1..Len(Statements) :
    \A x \in Range(Statements[p].Action) :
      /\ ":" \in Range(x)
      /\ \E k \in WithActions : x \in QualifiedOf(selections[k])

C6_GeneratePolicyNoSideEffect ==
  [][generatePolicy => UNCHANGED <<resources, selections, arnList, dependencyResolver>>]_vars

\* C7: the catalog and the selections hold the same resource ids, each once,
\* in the same order.
C7_CatalogMatchesSelections ==
  /\ ResourceKeys(resources) = SelectionKeys(selections)
  /\ NoDuplicates(ResourceKeys(resources))

C7_Witness ==
  /\ Len(resources) = 2
  /\ resources[1].id = "r2"
  /\ "r1" \in destroyed
  /\ lastCall.op = "addResource"
  /\ IsSome(dependencyResolver)
  /\ arnList # <<>>

\* C8: a resource whose configured selection was removed and which was added
\* again without an effective setActions or setARN has a selection with no
\* actions and no identifier, and contributes nothing to the document.
C8_RemoveDestroysSelection ==
  \A id \in destroyed :
    HasSelection(selections, id) =>
      /\ GetSelection(selections, id).actions = <<>>
      /\ GetSelection(selections, id).arn = None
      /\ Policy = GeneratePolicyRun(DeleteResource(resources, id),
                                    DeleteSelection(selections, id),
                                    dependencyResolver).policy

C8_Witness ==
  /\ lastCall.op = "addResource"
  /\ lastCall.id \in destroyed
  /\ ~lastCall.present
  /\ HasSelection(selections, lastCall.id)
  /\ Len(Statements) = 1

\* C9: addResource on an id that is present replaces its catalog entry and
\* nothing else: selections, the order of ids and the other entries stay.
C9_ReAddReplacesCatalogOnly ==
  [][\A resource \in ResourcePool :
       (addResource(resource) /\ HasSelection(selections, resource.id)) =>
         /\ selections' = selections
         /\ ResourceKeys(resources') = ResourceKeys(resources)
         /\ GetResource(resources', resource.id) = resource
         /\ \A id \in Range(ResourceKeys(resources)) \ {resource.id} :
              GetResource(resources', id) = GetResource(resources, id)]_vars

C9_Witness ==
  /\ lastCall.op = "addResource"
  /\ lastCall.present
  /\ IsConfigured(GetSelection(selections, lastCall.id))
  /\ GetSelection(selections, lastCall.id).actions # <<>>
  /\ Len(resources) = 2

\* the first index at which x occurs in xs
FirstIndex(xs, x) == CHOOSE i \in 1..Len(xs) : xs[i] = x /\ \A j \in 1..(i - 1) : xs[j] # x

\* ys is xs with duplicates removed, first occurrences in input order
IsFirstOccurrences(ys, xs) ==
  /\ NoDuplicates(ys)
  /\ Range(ys) = Range(xs)
  /\ \A i, j \in 1..Len(ys) : i < j => FirstIndex(xs, ys[i]) < FirstIndex(xs, ys[j])

\* C10: right after setActions on a present resource its actions are the
\* input with duplicates removed, unresolved; and no selection ever holds a
\* duplicate action.
C10_SetActionsDeduplicates ==
  /\ \A i \in 1..Len(selections) : NoDuplicates(selections[i].actions)
  /\ (lastCall.op = "setActions" /\ lastCall.present) =>
       IsFirstOccurrences(GetSelection(selections, lastCall.id).actions, lastCall.actions)

C10_Witness ==
  /\ lastCall.op = "setActions"
  /\ lastCall.present
  /\ lastCall.actions = << <<"b", ":", "c">>, <<"b", ":", "c">> >>
  /\ dependencyResolver = Some(Some(StaticTable))

\* C11: setActions, setARN and removeResource on an id that is not present
\* leave the catalog, every selection, the identifier catalog and the
\* registered resolver as they were, and create no Selection for the id.
C11_UnknownIdIsNoOp ==
  [][\A resourceId \in ResourceIds :
       (/\ ~HasSelection(selections, resourceId)
        /\ ~HasResource(resources, resourceId)
        /\ \/ removeResource(resourceId)
           \/ \E actions \in ActionLists : setActions(resourceId, actions)
           \/ \E arn \in ArnStrings : setARN(resourceId, arn)) =>
         /\ UNCHANGED <<resources, selections, arnList, dependencyResolver>>
         /\ ~HasSelection(selections', resourceId)]_vars

C11_Witness ==
  /\ lastCall.op \in {"setActions", "setARN", "removeResource"}
  /\ ~lastCall.present
  /\ ~HasSelection(selections, lastCall.id)
  /\ Len(selections) = 1
  /\ selections[1].actions # <<>>
  /\ IsSome(dependencyResolver)
  /\ arnList # <<>>

\* C12: the document always has Version '2012-10-17', and its Statement
\* list is empty exactly when no selection has an action; a selection with
\* no actions adds no statement even when its identifier is set.
C12_EmptyExactlyWhenNoActions ==
  /\ Policy.Version = "2012-10-17"
  /\ (Statements = <<>>) <=> (WithActions = {})
  /\ Policy = GeneratePolicyRun(resources,
                                SelectSeq(selections, LAMBDA s : s.actions # <<>>),
                                dependencyResolver).policy

C12_Witness ==
  /\ lastCall.op = "generatePolicy"
  /\ Val(ret).Statement = <<>>
  /\ Len(selections) = 2
  /\ \A i \in 1..Len(selections) :
       selections[i].actions = <<>> /\ selections[i].arn = Some(<<"a">>)

(***************************************************************************)
(* usePolicyGenerator: the hook around one PolicyCore                      *)
(***************************************************************************)
\* the static table of a second service, "t": "t:c" depends on "t:d"
StaticTableT ==
  (<<"t", ":", "c">> :> Entry(Some(<< <<"t", ":", "c">> >>), Some(<< <<"t", ":", "d">> >>), None))
  @@ (<<"t", ":", "d">> :> Entry(Some(<< <<"t", ":", "d">> >>), Some(<<>>), None))

\* staticDependencies[service] || null
getStaticDependencies(service) ==
  IF service = <<"b">> THEN Some(StaticTable)
  ELSE IF service = <<"t">> THEN Some(StaticTableT)
  ELSE None

\* inputs of the hook: action ids "b:c" and "t:c", identifier "a"
HookActionIds == {<<"b", ":", "c">>, <<"t", ":", "c">>}
HookActionLists == SeqsUpTo(HookActionIds, MaxActions)
HookArnStrings == {<<"a">>}
HookResourcePool == {[id |-> "r1", service |-> <<"b">>], [id |-> "r2", service |-> <<"t">>]}
HookInitialResources == {<<>>} \cup {<<r>> : r \in HookResourcePool}

\* updateState(): setState(core.getState()) schedules a render
updateState == hookState' = [hookState EXCEPT !.stale = TRUE]

\* a callback that returns without calling the core
HookNoOp(op, resourceId) ==
  /\ lastCall' = Call(op, resourceId, HasSelection(selections, resourceId), <<>>)
  /\ UNCHANGED <<resources, selections, arnList, dependencyResolver, ret, destroyed, hookState>>

\* first render: initialResources are added to a new core, state is its
\* getState() and policy its generatePolicy()
HookInit ==
  \E initialResources \in HookInitialResources :
    /\ resources = initialResources
    /\ selections = [i \in 1..Len(initialResources) |-> EmptySelection(initialResources[i].id)]
    /\ arnList = <<>>
    /\ dependencyResolver = None
    /\ ret = Some(GeneratePolicyRun(resources, selections, dependencyResolver).policy)
    /\ lastCall = Call("usePolicyGenerator", NoId, FALSE, <<>>)
    /\ destroyed = {}
    /\ hookState = Snapshot(resources, selections, FALSE)
    /\ pureIn = None
    /\ pureOut = None

hookAddResource(resource) == addResource(resource) /\ updateState

hookRemoveResource(resourceId) == removeResource(resourceId) /\ updateState

\* state.resources.find((r) => r.id === resourceId)
KnownToHook(resourceId) == HasResource(hookState.resources, resourceId)

selectResource(resourceId) ==
  IF KnownToHook(resourceId) /\ ~Contains(hookState.selections, resourceId)
  THEN addResource(GetResource(hookState.resources, resourceId)) /\ updateState
  ELSE HookNoOp("selectResource", resourceId)

deselectResource(resourceId) == removeResource(resourceId) /\ updateState

\* the resolver is replaced by the one of this resource's service, then the
\* core's setActions runs
hookSetActions(resourceId, actions) ==
  IF KnownToHook(resourceId)
  THEN /\ dependencyResolver' =
            Some(getStaticDependencies(GetResource(hookState.resources, resourceId).service))
       /\ selections' = IF HasSelection(selections, resourceId)
                        THEN SetSelection(selections,
                               [GetSelection(selections, resourceId) EXCEPT !.actions = Unique(actions)])
                        ELSE selections
       /\ ret' = None
       /\ lastCall' = Call("setActions", resourceId, HasSelection(selections, resourceId), actions)
       /\ destroyed' = IF HasSelection(selections, resourceId)
                       THEN destroyed \ {resourceId}
                       ELSE destroyed
       /\ updateState
       /\ UNCHANGED <<resources, arnList>>
  ELSE HookNoOp("setActions", resourceId)

hookSetARN(resourceId, arn) == setARN(resourceId, arn) /\ updateState

hookSetARNList(arns) == setARNList(arns) /\ updateState

hookReset == reset /\ updateState

\* the render a setState causes: `state` becomes the stored getState() and
\* useMemo recomputes policy with core.generatePolicy()
render ==
  /\ hookState.stale
  /\ generatePolicy
  /\ hookState' = Snapshot(resources, selections', FALSE)

HookNext ==
  \/ \E resource \in HookResourcePool : hookAddResource(resource) /\ UNCHANGED <<pureIn, pureOut>>
  \/ \E resourceId \in ResourceIds : hookRemoveResource(resourceId) /\ UNCHANGED <<pureIn, pureOut>>
  \/ \E resourceId \in ResourceIds : selectResource(resourceId) /\ UNCHANGED <<pureIn, pureOut>>
  \/ \E resourceId \in ResourceIds : deselectResource(resourceId) /\ UNCHANGED <<pureIn, pureOut>>
  \/ \E resourceId \in ResourceIds, actions \in HookActionLists :
       hookSetActions(resourceId, actions) /\ UNCHANGED <<pureIn, pureOut>>
  \/ \E resourceId \in ResourceIds, arn \in HookArnStrings :
       hookSetARN(resourceId, arn) /\ UNCHANGED <<pureIn, pureOut>>
  \/ \E arns \in ArnLists : hookSetARNList(arns) /\ UNCHANGED <<pureIn, pureOut>>
  \/ hookReset /\ UNCHANGED <<pureIn, pureOut>>
  \/ render /\ UNCHANGED <<pureIn, pureOut>>

SpecHook == HookInit /\ [][HookNext]_vars

\* C13: in the hook, the policy of a render holds, for every selection with
\* actions, the dependency closure of its actions under the static table of
\* its own resource's service.
C13_EachSelectionOwnClosure ==
  (~hookState.stale /\ IsSome(ret)) =>
    \A i \in WithActions :
      \A a \in Range(resolveDependencies(selections[i].actions,
                                         getStaticDependencies(ServiceOf(selections[i])))) :
        \E p \in 1..Len(Val(ret).Statement) :
          Qualified(ServiceOf(selections[i]), a) \in Range(Val(ret).Statement[p].Action)

(***************************************************************************)
(* utils resolveDependencies, run on its own                               *)
(***************************************************************************)
MaxInput == 2

\* ids of a table under test: "a" and "b" may have entries, "c" has none
TableKeys == {<<"a">>, <<"b">>}
ActionsOptions == {None, Some(<<>>)} \cup {Some(<<x>>) : x \in TableKeys}
DependenciesOptions == {None, Some(<<>>)} \cup {Some(<<x>>) : x \in TableKeys}
RequiresOptions == {None} \cup {Some(<<x>>) : x \in TableKeys \cup {<<"c">>}}
\* entries that also declare soft_requires
SoftEntry(a, d, r, s) == [actions |-> a, dependencies |-> d, requires |-> r, soft_requires |-> s]
SoftEntryPool ==
  {SoftEntry(None, d, r, Some(<< <<"c">> >>)) :
     d \in {None, Some(<< <<"b">> >>)}, r \in {None, Some(<< <<"b">> >>)}}
EntryPool ==
  {Entry(a, d, r) : a \in ActionsOptions, d \in DependenciesOptions, r \in RequiresOptions}
  \cup SoftEntryPool
TablePool == UNION {[keys -> EntryPool] : keys \in SUBSET TableKeys}
ConfigPool == {None} \cup {Some(t) : t \in TablePool}
InputPool == SeqsUpTo(TableKeys, MaxInput)

\* the state of one call: the loop's locals, the iterations made, and the
\* values returned by the first and by the second application
Running(phase, actions, first) ==
  [phase |-> phase, toProcess |-> actions, processed |-> {}, resolved |-> <<>>,
   steps |-> 0, first |-> first, second |-> None]

Returned(phase, first, second) ==
  [phase |-> phase, toProcess |-> <<>>, processed |-> {}, resolved |-> <<>>,
   steps |-> 0, first |-> first, second |-> second]

\* number of ids a table can queue: all its dependencies and requires
RECURSIVE TableEdges(_)
TableEdges(table) ==
  IF DOMAIN table = {} THEN 0
  ELSE LET k == CHOOSE x \in DOMAIN table : TRUE
           rem == [y \in DOMAIN table \ {k} |-> table[y]]
           d == IF IsSome(table[k].dependencies) THEN Len(Val(table[k].dependencies)) ELSE 0
           r == IF IsSome(table[k].requires) THEN Len(Val(table[k].requires)) ELSE 0
       IN d + r + TableEdges(rem)

\* the most iterations a call can make: every id on the stack is popped once
IterationBound(actions, table) == Len(actions) + TableEdges(table)

ResolveInit ==
  /\ resources = <<>>
  /\ selections = <<>>
  /\ arnList = <<>>
  /\ dependencyResolver = None
  /\ ret = None
  /\ lastCall = Call("-", NoId, FALSE, <<>>)
  /\ destroyed = {}
  /\ hookState = Snapshot(<<>>, <<>>, FALSE)
  /\ pureIn \in {Some([actions |-> a, dependencyConfig |-> c]) : a \in InputPool, c \in ConfigPool}
  /\ pureOut = None

\* resolveDependencies(actions, dependencyConfig) up to the loop: a null
\* config returns the input array
callResolve ==
  /\ pureOut = None
  /\ pureOut' = Some(IF ~IsSome(Val(pureIn).dependencyConfig)
                     THEN Returned("between", Some(Val(pureIn).actions), None)
                     ELSE Running("first", Val(pureIn).actions, None))

\* the argument of the call that is running
CallArgument ==
  IF Val(pureOut).phase = "first" THEN Val(pureIn).actions ELSE Val(Val(pureOut).first)

\* one iteration of while (toProcess.length > 0)
loopIteration ==
  /\ IsSome(pureOut)
  /\ Val(pureOut).phase \in {"first", "second"}
  /\ Val(pureOut).toProcess # <<>>
  /\ Val(pureOut).steps <= IterationBound(CallArgument, Val(Val(pureIn).dependencyConfig))
  /\ LET o == Val(pureOut)
         s == LoopIteration(o.toProcess, o.processed, o.resolved,
                            Val(Val(pureIn).dependencyConfig))
     IN pureOut' = Some([o EXCEPT !.toProcess = s.toProcess, !.processed = s.processed,
                                  !.resolved = s.resolved, !.steps = o.steps + 1])

\* return Array.from(resolved)
loopExit ==
  /\ IsSome(pureOut)
  /\ Val(pureOut).phase \in {"first", "second"}
  /\ Val(pureOut).toProcess = <<>>
  /\ LET o == Val(pureOut)
     IN pureOut' = Some(IF o.phase = "first"
                        THEN [o EXCEPT !.phase = "between", !.first = Some(o.resolved)]
                        ELSE [o EXCEPT !.phase = "done", !.second = Some(o.resolved)])

\* resolveDependencies(first result, dependencyConfig) up to the loop
callResolveAgain ==
  /\ IsSome(pureOut)
  /\ Val(pureOut).phase = "between"
  /\ LET first == Val(pureOut).first
     IN pureOut' = Some(IF ~IsSome(Val(pureIn).dependencyConfig)
                        THEN Returned("done", first, first)
                        ELSE Running("second", Val(first), first))

ResolveNext ==
  \/ callResolve /\ UNCHANGED <<resources, selections, arnList, dependencyResolver, ret, lastCall, destroyed, hookState, pureIn>>
  \/ loopIteration /\ UNCHANGED <<resources, selections, arnList, dependencyResolver, ret, lastCall, destroyed, hookState, pureIn>>
  \/ loopExit /\ UNCHANGED <<resources, selections, arnList, dependencyResolver, ret, lastCall, destroyed, hookState, pureIn>>
  \/ callResolveAgain /\ UNCHANGED <<resources, selections, arnList, dependencyResolver, ret, lastCall, destroyed, hookState, pureIn>>

SpecResolve == ResolveInit /\ [][ResolveNext]_vars

\* the call under test and its results
ResolveStarted == IsSome(pureIn) /\ IsSome(pureOut) /\ "phase" \in DOMAIN Val(pureOut)
FirstReturned == ResolveStarted /\ IsSome(Val(pureOut).first)
BothReturned == ResolveStarted /\ Val(pureOut).phase = "done"
HasTable == IsSome(Val(pureIn).dependencyConfig)
TableOf == Val(Val(pureIn).dependencyConfig)

\* every entry that declares actions declares exactly its own id
SelfExpanding(table) ==
  \A k \in DOMAIN table : IsSome(table[k].actions) => Val(table[k].actions) = <<k>>

\* C14 as stated: for every table and input, resolving the result again
\* gives the same set of actions.
C14_IdempotentForEveryTable ==
  BothReturned => Range(Val(Val(pureOut).second)) = Range(Val(Val(pureOut).first))

\* C14 amended: resolving the result again gives the same set whenever no
\* table is given or every entry that declares actions declares its own id.
C14_IdempotentWhenSelfExpanding ==
  (BothReturned /\ (HasTable => SelfExpanding(TableOf))) =>
    Range(Val(Val(pureOut).second)) = Range(Val(Val(pureOut).first))

C14_Witness ==
  /\ BothReturned
  /\ HasTable
  /\ SelfExpanding(TableOf)
  /\ \E k \in DOMAIN TableOf : IsSome(TableOf[k].actions) /\ IsSome(TableOf[k].requires)
  /\ Cardinality(Range(Val(Val(pureOut).first))) = 3
  /\ Len(Val(pureIn).actions) = 1

\* the table where "a" requires "b" and "b" requires "a"
CycleTable ==
  (<<"a">> :> Entry(None, None, Some(<< <<"b">> >>)))
  @@ (<<"b">> :> Entry(None, None, Some(<< <<"a">> >>)))

\* C15: a call makes at most as many iterations as ids can reach the stack,
\* so it terminates on every table; its result has no duplicates, and on
\* the cyclic table resolving ["a"] returns both "a" and "b".
C15_TerminatesOnCycles ==
  ResolveStarted =>
    /\ (HasTable /\ Val(pureOut).phase \in {"first", "second"}) =>
         Val(pureOut).steps + Len(Val(pureOut).toProcess) <= IterationBound(CallArgument, TableOf)
    /\ (FirstReturned /\ HasTable) => NoDuplicates(Val(Val(pureOut).first))
    /\ (FirstReturned /\ HasTable /\ TableOf = CycleTable /\ Val(pureIn).actions = << <<"a">> >>) =>
         Range(Val(Val(pureOut).first)) = {<<"a">>, <<"b">>}

C15_Witness ==
  /\ FirstReturned
  /\ HasTable
  /\ TableOf = CycleTable
  /\ Val(pureIn).actions = << <<"a">> >>
  /\ Val(pureOut).phase = "between"
  /\ Val(pureOut).steps = 2

\* C16: with no table the result holds the requested actions, nothing added
\* or removed, without duplicates.
C16_NullConfigDeduplicates ==
  (FirstReturned /\ ~HasTable) =>
    /\ Range(Val(Val(pureOut).first)) = Range(Val(pureIn).actions)
    /\ NoDuplicates(Val(Val(pureOut).first))

(***************************************************************************)
(* Identifier strings: PolicyCore.validateARN and utils/arn                *)
(***************************************************************************)
\* a character class [...] or [^...]; `.` is every character that is not a
\* line terminator
Class(set) == [neg |-> FALSE, set |-> set]
NotClass(set) == [neg |-> TRUE, set |-> set]
InClass(c, cls) == (c \in cls.set) # cls.neg
LowerLetters ==
  {"a", "b", "c", "d", "e", "f", "g", "h", "i", "j", "k", "l", "m",
   "n", "o", "p", "q", "r", "s", "t", "u", "v", "w", "x", "y", "z"}
Digits == {"0", "1", "2", "3", "4", "5", "6", "7", "8", "9"}
LowerDigitDash == Class(LowerLetters \cup Digits \cup {"-"})
DigitClass == Class(Digits)
NotColon == NotClass({":"})
Dot == NotClass({"\n", "\r"})

\* pattern items: one character of a class, or a class repeated
One(cls) == <<[cls |-> cls, many |-> FALSE]>>
Star(cls) == <<[cls |-> cls, many |-> TRUE]>>
Plus(cls) == One(cls) \o Star(cls)
Lits(str) == [i \in 1..Len(str) |-> [cls |-> Class({str[i]}), many |-> FALSE]]

\* /^ pat $/.test(str), from item i and position j
RECURSIVE MatchesFrom(_, _, _, _)
MatchesFrom(pat, i, str, j) ==
  IF i > Len(pat) THEN j > Len(str)
  ELSE IF pat[i].many
       THEN \/ MatchesFrom(pat, i + 1, str, j)
            \/ /\ j <= Len(str)
               /\ InClass(str[j], pat[i].cls)
               /\ MatchesFrom(pat, i, str, j + 1)
       ELSE /\ j <= Len(str)
            /\ InClass(str[j], pat[i].cls)
            /\ MatchesFrom(pat, i + 1, str, j + 1)

Test(pat, str) == MatchesFrom(pat, 1, str, 1)

\* str.includes(sep), str.split(sep), parts.join(sep)
Includes(str, sep) == \E i \in 1..Len(str) : str[i] = sep

RECURSIVE Split(_, _)
Split(str, sep) ==
  IF ~Includes(str, sep) THEN <<str>>
  ELSE LET i == CHOOSE k \in 1..Len(str) : str[k] = sep /\ \A m \in 1..(k - 1) : str[m] # sep
       IN <<SubSeq(str, 1, i - 1)>> \o Split(SubSeq(str, i + 1, Len(str)), sep)

RECURSIVE Join(_, _)
Join(parts, sep) ==
  IF parts = <<>> THEN <<>>
  ELSE IF Len(parts) = 1 THEN parts[1]
  ELSE parts[1] \o <<sep>> \o Join(Tail(parts), sep)

\* /^arn:aws:[a-z0-9-]+:[a-z0-9-]*:[0-9]*:.*$/
CoreArnPattern ==
  Lits(<<"a", "r", "n", ":", "a", "w", "s", ":">>) \o Plus(LowerDigitDash) \o Lits(<<":">>) \o Star(LowerDigitDash)
  \o Lits(<<":">>) \o Star(DigitClass) \o Lits(<<":">>) \o Star(Dot)

\* /^arn:([^:]+):([^:]+):([^:]*):([^:]*):(.+)$/
UtilArnPattern ==
  Lits(<<"a", "r", "n", ":">>) \o Plus(NotColon) \o Lits(<<":">>) \o Plus(NotColon) \o Lits(<<":">>)
  \o Star(NotColon) \o Lits(<<":">>) \o Star(NotColon) \o Lits(<<":">>) \o Plus(Dot)

RequiredMessage == <<"A", "R", "N", " ", "i", "s", " ", "r", "e", "q", "u", "i", "r", "e", "d">>
InvalidFormatMessage == <<"I", "n", "v", "a", "l", "i", "d", " ", "A", "R", "N", " ", "f", "o", "r", "m", "a", "t">>
MismatchMessage(service, arnService) == <<"A", "R", "N", " ", "s", "e", "r", "v", "i", "c", "e", " ", "m", "i", "s", "m", "a", "t", "c", "h", ".", " ", "E", "x", "p", "e", "c", "t", "e", "d", " ">> \o service \o <<",", " ", "g", "o", "t", " ">> \o arnService
Suggestion(service) == <<"a", "r", "n", ":", "a", "w", "s", ":">> \o service \o <<":", "r", "e", "g", "i", "o", "n", ":", "a", "c", "c", "o", "u", "n", "t", "-", "i", "d", ":", "r", "e", "s", "o", "u", "r", "c", "e">>

ValidationResult(valid, message, suggestions) ==
  [valid |-> valid, message |-> message, suggestions |-> suggestions]

\* variant of validateARN without the service comparison
validateARN_NoServiceCheck(service, arn) ==
  IF arn = <<>> THEN ValidationResult(FALSE, Some(RequiredMessage), None)
  ELSE IF ~Test(CoreArnPattern, arn)
  THEN ValidationResult(FALSE, Some(InvalidFormatMessage), Some(<<Suggestion(service)>>))
  ELSE ValidationResult(TRUE, None, None)

\* PolicyCore.validateARN(service, arn)
validateARN(service, arn) ==
  IF arn = <<>> THEN ValidationResult(FALSE, Some(RequiredMessage), None)
  ELSE IF ~Test(CoreArnPattern, arn)
  THEN ValidationResult(FALSE, Some(InvalidFormatMessage), Some(<<Suggestion(service)>>))
  ELSE LET arnService == Split(arn, ":")[3]
       IN IF arnService # service
          THEN ValidationResult(FALSE, Some(MismatchMessage(service, arnService)), None)
          ELSE ValidationResult(TRUE, None, None)

\* validateARNFormat(arn)
validateARNFormat(arn) == Test(UtilArnPattern, arn)

ParsedARN(partition, service, region, accountId, resource, resourceType) ==
  [partition |-> partition, service |-> service, region |-> region,
   accountId |-> accountId, resource |-> resource, resourceType |-> resourceType]

\* parseARN without the branch for service 's3'
parseARN_NoS3Case(arn) ==
  IF ~Test(UtilArnPattern, arn) THEN None
  ELSE
    LET fields == Split(arn, ":")
        resourcePart == Join(SubSeq(fields, 6, Len(fields)), ":")
        bySlash == Split(resourcePart, "/")
        byColon == Split(resourcePart, ":")
    IN Some(
         IF FALSE THEN
           ParsedARN(fields[2], fields[3], fields[4], fields[5], resourcePart, None)
         ELSE IF Includes(resourcePart, "/") THEN
           ParsedARN(fields[2], fields[3], fields[4], fields[5],
                     Join(Tail(bySlash), "/"), Some(bySlash[1]))
         ELSE IF Includes(resourcePart, ":") THEN
           ParsedARN(fields[2], fields[3], fields[4], fields[5],
                     Join(Tail(byColon), ":"), Some(byColon[1]))
         ELSE
           ParsedARN(fields[2], fields[3], fields[4], fields[5], resourcePart, None))

\* parseARN(arn): null (None) or the parsed fields; the first four groups
\* hold no ':', so the groups are the fields cut at the first five colons
parseARN(arn) ==
  IF ~Test(UtilArnPattern, arn) THEN None
  ELSE
    LET fields == Split(arn, ":")
        resourcePart == Join(SubSeq(fields, 6, Len(fields)), ":")
        bySlash == Split(resourcePart, "/")
        byColon == Split(resourcePart, ":")
    IN Some(
         IF fields[3] = <<"s", "3">> THEN
           ParsedARN(fields[2], fields[3], fields[4], fields[5], resourcePart, None)
         ELSE IF Includes(resourcePart, "/") THEN
           ParsedARN(fields[2], fields[3], fields[4], fields[5],
                     Join(Tail(bySlash), "/"), Some(bySlash[1]))
         ELSE IF Includes(resourcePart, ":") THEN
           ParsedARN(fields[2], fields[3], fields[4], fields[5],
                     Join(Tail(byColon), ":"), Some(byColon[1]))
         ELSE
           ParsedARN(fields[2], fields[3], fields[4], fields[5], resourcePart, None))

\* formatARN(parsed): an undefined or empty resourceType is falsy
formatARN(parsed) ==
  LET resourcePart == IF IsSome(parsed.resourceType) /\ Val(parsed.resourceType) # <<>>
                      THEN Val(parsed.resourceType) \o <<"/">> \o parsed.resource
                      ELSE parsed.resource
  IN <<"a", "r", "n", ":">> \o parsed.partition \o <<":">> \o parsed.service \o <<":">> \o parsed.region
     \o <<":">> \o parsed.accountId \o <<":">> \o resourcePart

\* identifier strings under test: five fields and a resource part joined by
\* ':', and three strings with fewer fields
PartitionField == {<<"a", "w", "s">>, <<"a">>}
ServiceField == {<<"s", "3">>, <<"t">>, <<"T">>}
RegionField == {<<>>, <<"r">>}
AccountField == {<<>>, <<"1">>, <<"x">>}
ResourceField ==
  {<<>>, <<"x">>, <<"t", "/", "x">>, <<"t", ":", "x">>, <<"/", "x">>, <<":", "x">>,
   <<"t", ":", "y", "/", "z">>, <<"/">>, <<"x", "\n">>}
ArnPool ==
  {<<>>, <<"x">>, <<"a", "r", "n", ":", "a", "w", "s", ":">> \o <<"t">>}
  \cup {Join(<<<<"a", "r", "n">>, p, sv, rg, ac, rs>>, ":") :
          p \in PartitionField, sv \in ServiceField, rg \in RegionField,
          ac \in AccountField, rs \in ResourceField}
ExpectedServices == {<<"s", "3">>, <<"t">>}

NotCalled(field) == IsSome(pureOut) /\ ~IsSome(Val(pureOut)[field])
Result(field) == Val(Val(pureOut)[field])
Called(field) == IsSome(pureOut) /\ field \in DOMAIN Val(pureOut) /\ IsSome(Val(pureOut)[field])

ArnInit ==
  /\ resources = <<>>
  /\ selections = <<>>
  /\ arnList = <<>>
  /\ dependencyResolver = None
  /\ ret = None
  /\ lastCall = Call("-", NoId, FALSE, <<>>)
  /\ destroyed = {}
  /\ hookState = Snapshot(<<>>, <<>>, FALSE)
  /\ pureIn \in {Some([service |-> sv, arn |-> a]) : sv \in ExpectedServices, a \in ArnPool}
  /\ pureOut = Some([validation |-> None, structural |-> None, parsed |-> None,
                     formatted |-> None, reparsed |-> None])

callValidateARN ==
  /\ NotCalled("validation")
  /\ pureOut' = Some([Val(pureOut) EXCEPT
                        !.validation = Some(validateARN(Val(pureIn).service, Val(pureIn).arn))])

callValidateARNFormat ==
  /\ NotCalled("structural")
  /\ pureOut' = Some([Val(pureOut) EXCEPT !.structural = Some(validateARNFormat(Val(pureIn).arn))])

callParseARN ==
  /\ NotCalled("parsed")
  /\ pureOut' = Some([Val(pureOut) EXCEPT !.parsed = Some(parseARN(Val(pureIn).arn))])

\* formatARN applied to a non-null parse result
callFormatARN ==
  /\ Called("parsed")
  /\ IsSome(Result("parsed"))
  /\ NotCalled("formatted")
  /\ pureOut' = Some([Val(pureOut) EXCEPT !.formatted = Some(formatARN(Val(Result("parsed"))))])

\* parseARN applied to the formatted string
callParseFormatted ==
  /\ Called("formatted")
  /\ NotCalled("reparsed")
  /\ pureOut' = Some([Val(pureOut) EXCEPT !.reparsed = Some(parseARN(Result("formatted")))])

ArnNext ==
  \/ callValidateARN /\ UNCHANGED <<resources, selections, arnList, dependencyResolver, ret, lastCall, destroyed, hookState, pureIn>>
  \/ callValidateARNFormat /\ UNCHANGED <<resources, selections, arnList, dependencyResolver, ret, lastCall, destroyed, hookState, pureIn>>
  \/ callParseARN /\ UNCHANGED <<resources, selections, arnList, dependencyResolver, ret, lastCall, destroyed, hookState, pureIn>>
  \/ callFormatARN /\ UNCHANGED <<resources, selections, arnList, dependencyResolver, ret, lastCall, destroyed, hookState, pureIn>>
  \/ callParseFormatted /\ UNCHANGED <<resources, selections, arnList, dependencyResolver, ret, lastCall, destroyed, hookState, pureIn>>

SpecArn == ArnInit /\ [][ArnNext]_vars

\* sub occurs in str
HasSubstring(str, sub) ==
  \E i \in 0..(Len(str) - Len(sub)) : SubSeq(str, i + 1, i + Len(sub)) = sub

AllIn(str, set) == \A i \in 1..Len(str) : str[i] \in set

\* the shape arn:aws:<service>:<region>:<account>:<rest>, stated on the
\* colon-separated fields: at least six fields, "arn", "aws", a non-empty
\* service and a region of lower-case letters, digits and '-', an account of
\* digits, and a rest without line terminators
WellShaped(arn) ==
  LET f == Split(arn, ":")
  IN /\ Len(f) >= 6
     /\ f[1] = <<"a", "r", "n">>
     /\ f[2] = <<"a", "w", "s">>
     /\ f[3] # <<>>
     /\ AllIn(f[3], LowerLetters \cup Digits \cup {"-"})
     /\ AllIn(f[4], LowerLetters \cup Digits \cup {"-"})
     /\ AllIn(f[5], Digits)
     /\ \A k \in 6..Len(f) : AllIn(f[k], {c \in Range(f[k]) : c \notin {"\n", "\r"}})

ThirdField(arn) == Split(arn, ":")[3]

\* C17: validateARN reports the first failing check in the order empty,
\* shape, service, and answers valid exactly when all three pass; valid
\* implies that the third field is the expected service.
C17_ValidateARNFirstFailingCheck ==
  Called("validation") =>
    LET arn == Val(pureIn).arn
        service == Val(pureIn).service
        v == Result("validation")
    IN /\ v.valid \in BOOLEAN
       /\ arn = <<>> =>
            (~v.valid /\ IsSome(v.message) /\ HasSubstring(Val(v.message), <<"A", "R", "N", " ", "i", "s", " ", "r", "e", "q", "u", "i", "r", "e", "d">>))
       /\ (arn # <<>> /\ ~WellShaped(arn)) =>
            /\ ~v.valid
            /\ IsSome(v.message) /\ HasSubstring(Val(v.message), <<"I", "n", "v", "a", "l", "i", "d", " ", "A", "R", "N", " ", "f", "o", "r", "m", "a", "t">>)
            /\ v.suggestions = Some(<<<<"a", "r", "n", ":", "a", "w", "s", ":">> \o service \o <<":", "r", "e", "g", "i", "o", "n", ":", "a", "c", "c", "o", "u", "n", "t", "-", "i", "d", ":", "r", "e", "s", "o", "u", "r", "c", "e">>>>)
       /\ (arn # <<>> /\ WellShaped(arn) /\ ThirdField(arn) # service) =>
            (~v.valid /\ IsSome(v.message) /\ HasSubstring(Val(v.message), <<"s", "e", "r", "v", "i", "c", "e", " ", "m", "i", "s", "m", "a", "t", "c", "h">>))
       /\ v.valid <=> (arn # <<>> /\ WellShaped(arn) /\ ThirdField(arn) = service)
       /\ v.valid => ThirdField(arn) = service

C17_Witness ==
  /\ Called("validation")
  /\ ~Result("validation").valid
  /\ WellShaped(Val(pureIn).arn)
  /\ ThirdField(Val(pureIn).arn) = <<"s", "3">>
  /\ Val(pureIn).service = <<"t">>

\* C18: an identifier that validateARN accepts is accepted by
\* validateARNFormat and parsed to non-null by parseARN.
C18_CoreNarrowerThanStructural ==
  (Called("validation") /\ Result("validation").valid) =>
    /\ Called("structural") => Result("structural")
    /\ Called("parsed") => IsSome(Result("parsed"))

\* C19: parsing the formatted parse of an accepted identifier gives the
\* first parse again, field by field, resourceType included.
C19_ParseFormatParseStable ==
  (Called("parsed") /\ IsSome(Result("parsed")) /\ Called("reparsed")) =>
    Result("reparsed") = Result("parsed")

\* C20: formatting the parse of an accepted identifier gives the identifier
\* itself.
C20_FormatInvertsParse ==
  (Called("parsed") /\ IsSome(Result("parsed")) /\ Called("formatted")) =>
    Result("formatted") = Val(pureIn).arn
(***************************************************************************)
(* utils/arn matchARNPattern                                               *)
(***************************************************************************)
MaxPattern == 2
MaxIdentifier == 2

\* characters of the strings under test: a letter, the two wildcards, and
\* characters that are special in a regular expression
MatchChars == {"a", ".", "*", "?", "$", "+", "("}
PatternPool == SeqsUpTo(MatchChars, MaxPattern)
IdentifierPool == SeqsUpTo(MatchChars, MaxIdentifier)

\* str.replace(/c/g, by)
RECURSIVE ReplaceAll(_, _, _)
ReplaceAll(str, c, by) ==
  IF str = <<>> THEN <<>>
  ELSE (IF Head(str) = c THEN by ELSE <<Head(str)>>) \o ReplaceAll(Tail(str), c, by)

\* pattern.replace(/\*/g, '.*').replace(/\?/g, '.').replace(/\$/g, '\\$')
RegexPattern(pattern) ==
  ReplaceAll(ReplaceAll(ReplaceAll(pattern, "*", <<".", "*">>), "?", <<".">>), "$", <<"\\", "$">>)

\* new RegExp(source) for sources over MatchChars and '\': the items of the
\* expression, or a SyntaxError (ok = FALSE) for a quantifier with nothing
\* to repeat, an unterminated group or a trailing '\'
RECURSIVE CompileFrom(_, _, _, _)
CompileFrom(src, i, items, repeatable) ==
  IF i > Len(src) THEN [ok |-> TRUE, items |-> items]
  ELSE
    LET c == src[i]
        n == Len(items)
    IN CASE c = "\\" ->
              IF i = Len(src) THEN [ok |-> FALSE, items |-> <<>>]
              ELSE CompileFrom(src, i + 2, items \o One(Class({src[i + 1]})), TRUE)
         [] c = "(" ->
              IF \E k \in (i + 1)..Len(src) : src[k] = ")"
              THEN CompileFrom(src, i + 1, items, FALSE)
              ELSE [ok |-> FALSE, items |-> <<>>]
         [] c = "*" ->
              IF ~repeatable THEN [ok |-> FALSE, items |-> <<>>]
              ELSE CompileFrom(src, i + 1,
                               SubSeq(items, 1, n - 1) \o Star(items[n].cls), FALSE)
         [] c = "+" ->
              IF ~repeatable THEN [ok |-> FALSE, items |-> <<>>]
              ELSE CompileFrom(src, i + 1, items \o Star(items[n].cls), FALSE)
         [] c = "." -> CompileFrom(src, i + 1, items \o One(Dot), TRUE)
         [] OTHER -> CompileFrom(src, i + 1, items \o One(Class({c})), TRUE)

Compile(src) == CompileFrom(src, 1, <<>>, FALSE)

\* the outcome of a call: a returned boolean or a thrown exception
ReturnedValue(value) == [threw |-> FALSE, value |-> value]
Thrown == [threw |-> TRUE, value |-> FALSE]

\* matchARNPattern(arn, pattern): new RegExp(`^${regexPattern}$`).test(arn)
matchARNPattern(arn, pattern) ==
  LET regex == Compile(RegexPattern(pattern))
  IN IF ~regex.ok THEN Thrown ELSE ReturnedValue(Test(regex.items, arn))

MatchInit ==
  /\ resources = <<>>
  /\ selections = <<>>
  /\ arnList = <<>>
  /\ dependencyResolver = None
  /\ ret = None
  /\ lastCall = Call("-", NoId, FALSE, <<>>)
  /\ destroyed = {}
  /\ hookState = Snapshot(<<>>, <<>>, FALSE)
  /\ pureIn \in {Some([arn |-> x, pattern |-> p]) : x \in IdentifierPool, p \in PatternPool}
  /\ pureOut = None

callMatchARNPattern ==
  /\ pureOut = None
  /\ pureOut' = Some(matchARNPattern(Val(pureIn).arn, Val(pureIn).pattern))

MatchNext ==
  \/ callMatchARNPattern /\ UNCHANGED <<resources, selections, arnList, dependencyResolver, ret, lastCall, destroyed, hookState, pureIn>>

SpecMatch == MatchInit /\ [][MatchNext]_vars

IsLiteral(pattern) == ~Includes(pattern, "*") /\ ~Includes(pattern, "?")

\* C21: for a pattern without '*' and '?', matchARNPattern(x, p) is true
\* exactly when x equals p.
C21_LiteralPatternMatchesItselfOnly ==
  (IsSome(pureOut) /\ IsLiteral(Val(pureIn).pattern)) =>
    Val(pureOut) = ReturnedValue(Val(pureIn).arn = Val(pureIn).pattern)

\* C22: matchARNPattern returns a boolean for every identifier and pattern;
\* it never throws.
C22_MatchNeverThrows ==
  IsSome(pureOut) => ~Val(pureOut).threw
(***************************************************************************)
(* PolicyCore: reset, and what a generated document holds                  *)
(***************************************************************************)
\* addResource({id: 'r1', service: 'b'}); setActions('r1', ['b:c']) on an
\* engine whose maps are empty
ProbeResources == <<[id |-> "r1", service |-> <<"b">>]>>
ProbeSelections == <<[resourceId |-> "r1", actions |-> << <<"b", ":", "c">> >>, arn |-> None]>>

\* C24: after reset the engine is as newly constructed: its maps and list are
\* empty and the same calls give the same getState and generatePolicy
\* results as on a new PolicyCore.
C24_ResetRestoresInitialState ==
  lastCall.op = "reset" =>
    /\ resources = <<>>
    /\ selections = <<>>
    /\ arnList = <<>>
    /\ GeneratePolicyRun(ProbeResources, ProbeSelections, dependencyResolver)
         = GeneratePolicyRun(ProbeResources, ProbeSelections, None)
\* C28: for every selection with actions, every action of its resolved set,
\* in qualified form, is in the Action list of a statement whose Resource is
\* the selection's final identifier.
C28_NoActionDroppedOrMoved ==
  \A i \in WithActions :
    \A x \in QualifiedOf(selections[i]) :
      \E p \in 1..Len(Statements) :
        /\ Statements[p].Resource = FinalIdentifier(selections[i])
        /\ x \in Range(Statements[p].Action)
\* C29: the resources and selections the hook holds have the same ids, so
\* the guard of selectResource holds for no id and selectResource never
\* calls the engine; once rendered, a removed resource is in neither list.
C29_SelectResourceNeverActs ==
  /\ Range(ResourceKeys(hookState.resources)) = Range(hookState.selections)
  /\ \A resourceId \in ResourceIds :
       ~(KnownToHook(resourceId) /\ ~Contains(hookState.selections, resourceId))
  /\ ~hookState.stale =>
       (hookState.resources = resources /\ hookState.selections = SelectionKeys(selections))

C29_Witness ==
  /\ lastCall.op = "selectResource"
  /\ lastCall.id \in destroyed
  /\ ~hookState.stale
  /\ ~HasResource(resources, lastCall.id)
  /\ ~KnownToHook(lastCall.id)
\* the part of str before its first sep, and the part after it
BeforeFirst(str, sep) == SubSeq(str, 1, FirstIndex(str, sep) - 1)
AfterFirst(str, sep) == SubSeq(str, FirstIndex(str, sep) + 1, Len(str))

\* the text after the n-th ':' of str, which has at least n of them
RECURSIVE AfterColons(_, _)
AfterColons(str, n) == IF n = 0 THEN str ELSE AfterColons(AfterFirst(str, ":"), n - 1)

CountOf(str, sep) == Cardinality({k \in 1..Len(str) : str[k] = sep})

\* C26: parseARN returns null unless the string has the scheme 'arn', a
\* non-empty partition and service and a non-empty resource part after the
\* fifth colon; for 's3' the resource part is the resource, for other
\* services it is cut at its first '/', else at its first ':', else kept
\* whole; and parseARN is non-null exactly when validateARNFormat is true.
C26_ParseDecodesByService ==
  Called("parsed") =>
    LET arn == Val(pureIn).arn
        parsed == Result("parsed")
    IN /\ IsSome(parsed) =>
            /\ CountOf(arn, ":") >= 5
            /\ BeforeFirst(arn, ":") = <<"a", "r", "n">>
            /\ LET part == AfterColons(arn, 5)
                   r == Val(parsed)
               IN /\ r.partition = BeforeFirst(AfterColons(arn, 1), ":")
                  /\ r.service = BeforeFirst(AfterColons(arn, 2), ":")
                  /\ r.region = BeforeFirst(AfterColons(arn, 3), ":")
                  /\ r.accountId = BeforeFirst(AfterColons(arn, 4), ":")
                  /\ r.partition # <<>>
                  /\ r.service # <<>>
                  /\ part # <<>>
                  /\ IF r.service = <<"s", "3">>
                     THEN r.resource = part /\ r.resourceType = None
                     ELSE IF Includes(part, "/")
                     THEN /\ r.resourceType = Some(BeforeFirst(part, "/"))
                          /\ r.resource = AfterFirst(part, "/")
                     ELSE IF Includes(part, ":")
                     THEN /\ r.resourceType = Some(BeforeFirst(part, ":"))
                          /\ r.resource = AfterFirst(part, ":")
                     ELSE r.resource = part /\ r.resourceType = None
       /\ Called("structural") => (IsSome(parsed) <=> Result("structural"))

C26_Witness ==
  /\ Called("parsed")
  /\ Called("structural")
  /\ IsSome(Result("parsed"))
  /\ Val(Result("parsed")).service = <<"s", "3">>
  /\ Includes(Val(Result("parsed")).resource, "/")
\* what the entry of id k declares, for a table t
ExpansionOf(t, k) ==
  IF k \in DOMAIN t /\ IsSome(t[k].actions) THEN Range(Val(t[k].actions)) ELSE {k}
RequiresOf(t, k) ==
  IF k \in DOMAIN t /\ IsSome(t[k].requires) THEN Range(Val(t[k].requires)) ELSE {}
DependenciesOf(t, k) ==
  IF k \in DOMAIN t /\ IsSome(t[k].dependencies) THEN Range(Val(t[k].dependencies)) ELSE {}
SoftRequiresOf(t, k) ==
  IF k \in DOMAIN t /\ "soft_requires" \in DOMAIN t[k] /\ IsSome(t[k].soft_requires)
  THEN Range(Val(t[k].soft_requires)) ELSE {}

\* the ids reachable from a set of ids through dependencies and requires
RECURSIVE ReachableFrom(_, _)
ReachableFrom(t, ids) ==
  LET more == ids \cup UNION {DependenciesOf(t, k) \cup RequiresOf(t, k) : k \in ids}
  IN IF more = ids THEN ids ELSE ReachableFrom(t, more)

\* C27: the ids processed are those reachable from the input through
\* dependencies and requires; the result holds every id in the requires of a
\* processed entry, and is exactly the expansions and requires of the
\* processed ids, so an id reached only through dependencies is in the
\* result only through an expansion, and soft_requires add nothing.
C27_RequiresAddedDependenciesExpanded ==
  (FirstReturned /\ HasTable /\ Val(pureOut).phase = "between") =>
    LET t == TableOf
        processed == Val(pureOut).processed
        result == Range(Val(Val(pureOut).first))
    IN /\ processed = ReachableFrom(t, Range(Val(pureIn).actions))
       /\ \A k \in processed : RequiresOf(t, k) \subseteq result
       /\ result = UNION {ExpansionOf(t, k) \cup RequiresOf(t, k) : k \in processed}
       /\ \A k \in processed :
            \A x \in SoftRequiresOf(t, k) :
              x \in result => \E m \in processed : x \in ExpansionOf(t, m) \cup RequiresOf(t, m)

C27_Witness ==
  /\ FirstReturned
  /\ HasTable
  /\ Val(pureOut).phase = "between"
  /\ Val(pureIn).actions = << <<"a">> >>
  /\ RequiresOf(TableOf, <<"a">>) = {<<"b">>}
  /\ SoftRequiresOf(TableOf, <<"a">>) = {<<"c">>}
  /\ <<"b">> \notin ExpansionOf(TableOf, <<"b">>)
  /\ <<"b">> \in Range(Val(Val(pureOut).first))
  /\ <<"c">> \notin Range(Val(Val(pureOut).first))
(***************************************************************************)
(* PolicyCore.getState and the references a caller holds                   *)
(***************************************************************************)
MaxArnList == 2

\* what the caller can reach: the Selection objects of the last getState()
\* that are still the engine's, the engine's arnList array obtained from
\* getState(), and the engine's arnList array as the one passed to setARNList
Held(sels, snapshotList, passedList) ==
  [selections |-> sels, snapshotList |-> snapshotList, passedList |-> passedList]

SnapshotResourceIds == {"r1"}
SnapshotResourcePool == {[id |-> "r1", service |-> <<"b">>]}
SnapshotArnItems == {[arn |-> <<"a">>, service |-> <<"b">>]}
SnapshotActionLists == SeqsUpTo(HookActionIds, 1)

SnapshotInit ==
  /\ resources = <<>>
  /\ selections = <<>>
  /\ arnList = <<>>
  /\ dependencyResolver = None
  /\ ret = None
  /\ lastCall = Call("constructor", NoId, FALSE, <<>>)
  /\ destroyed = {}
  /\ hookState = Snapshot(<<>>, <<>>, FALSE)
  /\ pureIn = None
  /\ pureOut = Some(Held({}, FALSE, FALSE))

\* getState(): new arrays of the engine's resource and Selection objects,
\* and this.arnList itself
getState ==
  /\ pureOut' = Some(Held(Range(SelectionKeys(selections)), TRUE, Val(pureOut).passedList))
  /\ ret' = None
  /\ lastCall' = Call("getState", NoId, FALSE, <<>>)
  /\ UNCHANGED <<resources, selections, arnList, dependencyResolver, destroyed>>

\* engine calls, with their effect on what the caller holds
snapshotAddResource(resource) ==
  addResource(resource) /\ UNCHANGED pureOut

snapshotRemoveResource(resourceId) ==
  /\ removeResource(resourceId)
  /\ pureOut' = Some([Val(pureOut) EXCEPT !.selections = @ \ {resourceId}])

snapshotSetActions(resourceId, actions) ==
  setActions(resourceId, actions) /\ UNCHANGED pureOut

snapshotSetARNList(arns) ==
  /\ setARNList(arns)
  /\ pureOut' = Some([Val(pureOut) EXCEPT !.snapshotList = FALSE, !.passedList = TRUE])

snapshotGeneratePolicy ==
  generatePolicy /\ UNCHANGED pureOut

snapshotReset ==
  /\ reset
  /\ pureOut' = Some(Held({}, FALSE, FALSE))

\* snapshot.selections[i].actions.push(action)
pushSnapshotAction(resourceId, action) ==
  /\ resourceId \in Val(pureOut).selections
  /\ Len(GetSelection(selections, resourceId).actions) < MaxActions
  /\ selections' = SetSelection(selections,
       [GetSelection(selections, resourceId) EXCEPT !.actions = Append(@, action)])
  /\ ret' = None
  /\ lastCall' = Call("snapshot.actions.push", resourceId, TRUE, <<action>>)
  /\ UNCHANGED <<resources, arnList, dependencyResolver, destroyed, pureOut>>

\* snapshot.selections[i].arn = arn
assignSnapshotArn(resourceId, arn) ==
  /\ resourceId \in Val(pureOut).selections
  /\ selections' = SetSelection(selections,
       [GetSelection(selections, resourceId) EXCEPT !.arn = Some(arn)])
  /\ ret' = None
  /\ lastCall' = Call("snapshot.arn=", resourceId, TRUE, <<>>)
  /\ UNCHANGED <<resources, arnList, dependencyResolver, destroyed, pureOut>>

\* snapshot.arnList.push(item)
pushSnapshotArnList(item) ==
  /\ Val(pureOut).snapshotList
  /\ Len(arnList) < MaxArnList
  /\ arnList' = Append(arnList, item)
  /\ ret' = None
  /\ lastCall' = Call("snapshot.arnList.push", NoId, FALSE, <<>>)
  /\ UNCHANGED <<resources, selections, dependencyResolver, destroyed, pureOut>>

\* arns.push(item) on the array that was passed to setARNList
pushPassedArnList(item) ==
  /\ Val(pureOut).passedList
  /\ Len(arnList) < MaxArnList
  /\ arnList' = Append(arnList, item)
  /\ ret' = None
  /\ lastCall' = Call("arns.push", NoId, FALSE, <<>>)
  /\ UNCHANGED <<resources, selections, dependencyResolver, destroyed, pureOut>>

SnapshotNext ==
  \/ getState /\ UNCHANGED <<hookState, pureIn>>
  \/ \E resource \in SnapshotResourcePool : snapshotAddResource(resource) /\ UNCHANGED <<hookState, pureIn>>
  \/ \E resourceId \in SnapshotResourceIds : snapshotRemoveResource(resourceId) /\ UNCHANGED <<hookState, pureIn>>
  \/ \E resourceId \in SnapshotResourceIds, actions \in SnapshotActionLists :
       snapshotSetActions(resourceId, actions) /\ UNCHANGED <<hookState, pureIn>>
  \/ \E arns \in ArnLists : snapshotSetARNList(arns) /\ UNCHANGED <<hookState, pureIn>>
  \/ snapshotGeneratePolicy /\ UNCHANGED <<hookState, pureIn>>
  \/ snapshotReset /\ UNCHANGED <<hookState, pureIn>>
  \/ \E resourceId \in SnapshotResourceIds, action \in HookActionIds :
       pushSnapshotAction(resourceId, action) /\ UNCHANGED <<hookState, pureIn>>
  \/ \E resourceId \in SnapshotResourceIds, arn \in HookArnStrings :
       assignSnapshotArn(resourceId, arn) /\ UNCHANGED <<hookState, pureIn>>
  \/ \E item \in SnapshotArnItems : pushSnapshotArnList(item) /\ UNCHANGED <<hookState, pureIn>>
  \/ \E item \in SnapshotArnItems : pushPassedArnList(item) /\ UNCHANGED <<hookState, pureIn>>

SpecSnapshot == SnapshotInit /\ [][SnapshotNext]_vars

CallerMutations == {"snapshot.actions.push", "snapshot.arn=", "snapshot.arnList.push", "arns.push"}

\* C23: a mutation the caller makes on a snapshot, or on the array it passed
\* to setARNList, changes neither what getState() returns next nor what
\* generatePolicy() returns next.
C23_SnapshotDoesNotExposeEngine ==
  [][lastCall'.op \in CallerMutations =>
       (/\ resources' = resources
        /\ selections' = selections
        /\ arnList' = arnList
        /\ Policy' = Policy)]_vars

(***************************************************************************)
(* ARNInput: what the component renders                                    *)
(***************************************************************************)
MaxTerm == 2

\* String.prototype.toLowerCase on the letters of the strings under test
LowerChar(c) == CASE c = "A" -> "a" [] c = "B" -> "b" [] OTHER -> c
ToLowerCase(str) == [i \in 1..Len(str) |-> LowerChar(str[i])]

\* props: mode, service and arnList; the items have an arn, a service and an
\* optional displayName
ArnInputModes == {"input", "dropdown", "both", "auto"}
ArnItem(arn, service, displayName) == [arn |-> arn, service |-> service, displayName |-> displayName]
ArnItemA == ArnItem(<<"a", "B">>, <<"b">>, None)
ArnItemB == ArnItem(<<"b">>, <<"b">>, Some(<<"A", "x">>))
ArnInputLists == {<<>>, <<ArnItemA>>, <<ArnItemA, ArnItemB>>}
TermPool == SeqsUpTo({"a", "B", "x"}, MaxTerm)

\* generateARNSuggestions(service) for a service without patterns of its own
generateARNSuggestions(service) == <<<<"a", "r", "n", ":", "a", "w", "s", ":">> \o service \o <<":", "u", "s", "-", "e", "a", "s", "t", "-", "1", ":", "1", "2", "3", "4", "5", "6", "7", "8", "9", "0", "1", "2", ":", "*">>>>

Props == Val(pureIn)
Component == Val(pureOut)

\* arnList.filter(service).filter(searchTerm)
MatchesTerm(item, searchTerm) ==
  \/ searchTerm = <<>>
  \/ HasSubstring(ToLowerCase(item.arn), ToLowerCase(searchTerm))
  \/ (IsSome(item.displayName)
      /\ HasSubstring(ToLowerCase(Val(item.displayName)), ToLowerCase(searchTerm)))

filteredARNs ==
  SelectSeq(SelectSeq(Props.arnList, LAMBDA item : item.service = Props.service),
            LAMBDA item : MatchesTerm(item, Component.searchTerm))

actualMode ==
  IF Props.mode = "auto"
  THEN (IF Len(filteredARNs) > 0 THEN "dropdown" ELSE "input")
  ELSE Props.mode

showInput == actualMode = "input" \/ actualMode = "both"
showDropdown == (actualMode = "dropdown" \/ actualMode = "both") /\ Len(filteredARNs) > 0
\* the search field inside the dropdown wrapper
showSearch == showDropdown /\ actualMode = "dropdown"

ArnInputInit ==
  /\ resources = <<>>
  /\ selections = <<>>
  /\ arnList = <<>>
  /\ dependencyResolver = None
  /\ ret = None
  /\ lastCall = Call("-", NoId, FALSE, <<>>)
  /\ destroyed = {}
  /\ hookState = Snapshot(<<>>, <<>>, FALSE)
  /\ pureIn \in {Some([mode |-> m, service |-> sv, arnList |-> l]) :
                   m \in ArnInputModes, sv \in Services, l \in ArnInputLists}
  /\ pureOut = Some([isOpen |-> FALSE, searchTerm |-> <<>>, value |-> <<>>])

\* typing in the text input; the parent stores the value given to onChange
handleInputChange(newValue) ==
  /\ showInput
  /\ pureOut' = Some(IF showDropdown
                     THEN [isOpen |-> TRUE, searchTerm |-> newValue, value |-> newValue]
                     ELSE [Component EXCEPT !.value = newValue])

\* onFocus of the text input
focusInput ==
  /\ showInput
  /\ pureOut' = Some(IF showDropdown THEN [Component EXCEPT !.isOpen = TRUE] ELSE Component)

\* typing in the search field
changeSearch(term) ==
  /\ showSearch
  /\ pureOut' = Some([Component EXCEPT !.searchTerm = term])

\* onFocus of the search field
focusSearch ==
  /\ showSearch
  /\ pureOut' = Some([Component EXCEPT !.isOpen = TRUE])

\* handleSelectARN from an option of the open dropdown
selectOption(item) ==
  /\ showDropdown
  /\ Component.isOpen
  /\ Contains(filteredARNs, item)
  /\ pureOut' = Some([isOpen |-> FALSE, searchTerm |-> <<>>, value |-> item.arn])

\* handleSelectARN from one of the first two suggestions
selectSuggestion(k) ==
  /\ showInput
  /\ Component.value = <<>>
  /\ k \in 1..Len(generateARNSuggestions(Props.service))
  /\ k <= 2
  /\ pureOut' = Some([isOpen |-> FALSE, searchTerm |-> <<>>,
                      value |-> generateARNSuggestions(Props.service)[k]])

\* click on the overlay
clickOverlay ==
  /\ showDropdown
  /\ Component.isOpen
  /\ pureOut' = Some([Component EXCEPT !.isOpen = FALSE])

ArnInputNext ==
  \/ \E newValue \in TermPool : handleInputChange(newValue) /\ UNCHANGED <<resources, selections, arnList, dependencyResolver, ret, lastCall, destroyed, hookState, pureIn>>
  \/ focusInput /\ UNCHANGED <<resources, selections, arnList, dependencyResolver, ret, lastCall, destroyed, hookState, pureIn>>
  \/ \E term \in TermPool : changeSearch(term) /\ UNCHANGED <<resources, selections, arnList, dependencyResolver, ret, lastCall, destroyed, hookState, pureIn>>
  \/ focusSearch /\ UNCHANGED <<resources, selections, arnList, dependencyResolver, ret, lastCall, destroyed, hookState, pureIn>>
  \/ \E item \in {ArnItemA, ArnItemB} : selectOption(item) /\ UNCHANGED <<resources, selections, arnList, dependencyResolver, ret, lastCall, destroyed, hookState, pureIn>>
  \/ \E k \in 1..2 : selectSuggestion(k) /\ UNCHANGED <<resources, selections, arnList, dependencyResolver, ret, lastCall, destroyed, hookState, pureIn>>
  \/ clickOverlay /\ UNCHANGED <<resources, selections, arnList, dependencyResolver, ret, lastCall, destroyed, hookState, pureIn>>

SpecArnInput == ArnInputInit /\ [][ArnInputNext]_vars

\* C25: the text input or the search field is rendered in every state, and
\* the text input is rendered whenever no ARN matches the service and the
\* search term.
C25_AlwaysAWayToEnter ==
  /\ showInput \/ showSearch
  /\ Len(filteredARNs) = 0 => showInput
(***************************************************************************)
(* PolicyGenerator: the effects that run after each render                 *)
(***************************************************************************)
MaxEffectRuns == 3

\* props: services, defaultSelections (one array, the same on every render)
\* and arnList, which is either one array on every render ("stable") or the
\* default value [], a new array on every render ("fresh")
MountServices ==
  {<<[id |-> "r1", service |-> <<"b">>]>>,
   <<[id |-> "r1", service |-> <<"b">>], [id |-> "r2", service |-> <<"t">>]>>}
MountSelections ==
  {<<[resourceId |-> id, actions |-> a, arn |-> n]>> :
     id \in ResourceIds, a \in HookActionLists, n \in {None, Some(<<"a">>)}}
MountArnListProps == {"stable", "fresh"}
StableArnList == <<[arn |-> <<"a">>, service |-> <<"b">>]>>

Mount == Val(pureIn)
React == Val(pureOut)

\* the engine while an effect runs; updated records a call of updateState
Engine(res, sels, resolver, updated) ==
  [resources |-> res, selections |-> sels, dependencyResolver |-> resolver, updated |-> updated]

\* the body of the forEach callback for one default selection: addResource,
\* setActions and, for a non-empty arn, setARN of the hook; setActions looks
\* the resource up in the resources of the render that created the effect
ApplyDefault(eng, selection, services, rendered) ==
  IF ~HasResource(services, selection.resourceId) THEN eng
  ELSE
    LET resource == GetResource(services, selection.resourceId)
        res1 == SetResource(eng.resources, resource)
        sels1 == IF ~HasSelection(eng.selections, resource.id)
                 THEN SetSelection(eng.selections, EmptySelection(resource.id))
                 ELSE eng.selections
        known == HasResource(rendered, selection.resourceId)
        resolver2 == IF known
                     THEN Some(getStaticDependencies(GetResource(rendered, selection.resourceId).service))
                     ELSE eng.dependencyResolver
        sels2 == IF known
                 THEN SetSelection(sels1, [GetSelection(sels1, resource.id)
                                             EXCEPT !.actions = Unique(selection.actions)])
                 ELSE sels1
        sels3 == IF IsSome(selection.arn) /\ Val(selection.arn) # <<>>
                 THEN SetSelection(sels2, [GetSelection(sels2, resource.id)
                                             EXCEPT !.arn = Some(Val(selection.arn))])
                 ELSE sels2
    IN Engine(res1, sels3, resolver2, TRUE)

\* defaultSelections.forEach(...)
RECURSIVE ApplyDefaults(_, _, _, _)
ApplyDefaults(eng, defaults, services, rendered) ==
  IF defaults = <<>> THEN eng
  ELSE ApplyDefaults(ApplyDefault(eng, Head(defaults), services, rendered),
                     Tail(defaults), services, rendered)

\* first render: usePolicyGenerator(services) adds the services to a new
\* engine; no effect has run yet
MountInit ==
  \E services \in MountServices, defaults \in MountSelections, prop \in MountArnListProps :
    /\ resources = services
    /\ selections = [i \in 1..Len(services) |-> EmptySelection(services[i].id)]
    /\ arnList = <<>>
    /\ dependencyResolver = None
    /\ ret = Some(GeneratePolicyRun(resources, selections, dependencyResolver).policy)
    /\ lastCall = Call("PolicyGenerator", NoId, FALSE, <<>>)
    /\ destroyed = {}
    /\ hookState = Snapshot(resources, selections, FALSE)
    /\ pureIn = Some([services |-> services, defaultSelections |-> defaults, arnList |-> prop])
    /\ pureOut = Some([phase |-> "committed", rendered |-> 0, latest |-> 0,
                       arnListSeen |-> FALSE, setActionsSeen |-> -1, policySeen |-> -1,
                       effectRuns |-> 0])

\* the effects of one commit, in order: setARNList(arnList) when arnList or
\* setARNList changed, the default selections when one of their
\* dependencies changed (setActions is a new function whenever
\* state.resources is a new array), onChange(policy) when policy changed.
\* The setState calls of one pass are batched into one pending state.
runEffects ==
  /\ React.phase = "committed"
  /\ React.effectRuns <= MaxEffectRuns
  /\ LET runArnList == ~React.arnListSeen \/ Mount.arnList = "fresh"
         runDefaults == React.setActionsSeen # React.rendered
         eng0 == Engine(resources, selections, dependencyResolver, runArnList)
         eng1 == IF runDefaults
                 THEN ApplyDefaults(eng0, Mount.defaultSelections, Mount.services,
                                    hookState.resources)
                 ELSE eng0
     IN /\ arnList' = IF runArnList
                      THEN (IF Mount.arnList = "fresh" THEN <<>> ELSE StableArnList)
                      ELSE arnList
        /\ resources' = eng1.resources
        /\ selections' = eng1.selections
        /\ dependencyResolver' = eng1.dependencyResolver
        /\ ret' = IF eng1.updated THEN None ELSE ret
        /\ hookState' = [hookState EXCEPT !.stale = @ \/ eng1.updated]
        /\ pureOut' = Some([React EXCEPT
                              !.phase = "idle",
                              !.latest = IF eng1.updated THEN @ + 1 ELSE @,
                              !.arnListSeen = TRUE,
                              !.setActionsSeen = React.rendered,
                              !.policySeen = React.rendered,
                              !.effectRuns = IF runDefaults THEN @ + 1 ELSE @])
  /\ lastCall' = Call("useEffect", NoId, FALSE, <<>>)
  /\ UNCHANGED <<destroyed, pureIn>>

\* the render a pending state causes: state is the stored getState(), policy
\* is recomputed, and the commit is followed by its effects
mountRender ==
  /\ React.phase = "idle"
  /\ React.latest > React.rendered
  /\ generatePolicy
  /\ hookState' = Snapshot(resources, selections', FALSE)
  /\ pureOut' = Some([React EXCEPT !.phase = "committed", !.rendered = React.latest])
  /\ UNCHANGED pureIn

MountNext ==
  \/ runEffects
  \/ mountRender

SpecMount == MountInit /\ [][MountNext]_vars

\* a default selection names one of the services
DefaultsMatch ==
  \E i \in 1..Len(Mount.defaultSelections) :
    HasResource(Mount.services, Mount.defaultSelections[i].resourceId)

\* C30: when a default selection matches a service, the effect that applies
\* the default selections runs a bounded number of times.
C30_DefaultsEffectRunsBounded ==
  DefaultsMatch => React.effectRuns <= MaxEffectRuns

====
